---- MODULE Spec2Model ----
(***************************************************************************)
(* The build / specify / initialize / solve / optimize / report pipeline   *)
(* of tutorials/workshop_flowsheet.py, its UI adapter, and the parameter   *)
(* loading of the zero-order nanofiltration unit.                          *)
(*                                                                         *)
(* The flowsheet model object m is abstracted to what the driver reads and *)
(* writes: which variables are fixed, the structural variable/equality     *)
(* balance, the declared objective, parameters, bounds and constraints,    *)
(* the initialization log, the exported UI variables and the identity of   *)
(* the solution currently loaded in the variable values.                   *)
(***************************************************************************)
EXTENDS Integers, Sequences, FiniteSets, TLC

VARIABLES
    driver,     \* who drives the pipeline: "main", "ui", "ui_preset" or "call"
    handler,    \* the function body being executed, "idle" when none is
    prog,       \* the calls of that body, in source order
    ip,         \* index in prog of the next call
    m,          \* the flowsheet model object
    err,        \* the exception that ended the last handler, kind "none" if none
    trace,      \* the calls made by the current handler so far, in order
    calls,      \* the solver invocations made on m, in order
    checked,    \* {n} when the last degrees-of-freedom check on m passed for n, else {}
    dirty,      \* the variables fixed or unfixed on m since that check
    uiBlock,    \* whether FlowsheetInterface holds a block (ui.set_block)
    results,    \* the results dictionary of the running ui_solve
    returned,   \* <<value>> once the handler has returned a value, else << >>
    runs,       \* number of UI actions run so far
    nf          \* the nanofiltration unit, its database and its call log

vars == <<driver, handler, prog, ip, m, err, trace, calls, checked, dirty,
          uiBlock, results, returned, runs, nf>>

flowVars == <<driver, handler, prog, ip, m, err, trace, calls, checked, dirty,
              uiBlock, results, returned, runs>>

----------------------------------------------------------------------------
(* Bounds of the model. *)

\* how far the built flowsheet's structural balance may be off the nominal one
DofSlack == 1
\* how many UI actions one session runs
MaxActions == 3

----------------------------------------------------------------------------
(* The flowsheet: build(), lines 140-210. *)

Units == <<"feed", "pump", "RO", "erd", "product", "disposal">>

UnitSet == {Units[i] : i \in 1..Len(Units)}

Arcs ==
    [s01 |-> [source |-> "feed", destination |-> "pump"],
     s02 |-> [source |-> "pump", destination |-> "RO"],
     s03 |-> [source |-> "RO",   destination |-> "product"],
     s04 |-> [source |-> "RO",   destination |-> "erd"],
     s05 |-> [source |-> "erd",  destination |-> "disposal"]]

ArcNames == DOMAIN Arcs

\* the variables set_operating_conditions fixes, in source order
OperatingVars ==
    <<"feed.pressure", "feed.temperature",
      "feed.flow_mass_H2O", "feed.flow_mass_TDS",
      "pump.efficiency_pump", "pump.pressure_out",
      "RO.A_comp", "RO.B_comp", "RO.channel_height", "RO.spacer_porosity",
      "RO.permeate.pressure", "RO.velocity", "RO.recovery_vol_phase",
      "erd.efficiency_pump", "erd.pressure_out">>

OperatingVarSet == {OperatingVars[i] : i \in 1..Len(OperatingVars)}

MembraneCost == "costing.reverse_osmosis_membrane_cost"

MembraneCostNew == 60

\* the costing block's parameters are variables fixed at their defaults
CostingFixed == {MembraneCost}

\* variables in equalities minus equalities of the flowsheet as built: one per
\* operating variable and costing parameter when the unit models are as the
\* script expects
NominalDof == Cardinality(OperatingVarSet) + Cardinality(CostingFixed)

BuiltDofs == (NominalDof - DofSlack)..(NominalDof + DofSlack)

\* the components optimize_set_up declares on m.fs
Declarations ==
    {"objective", "product_salinity", "minimum_water_flux",
     "eq_product_quality", "eq_minimum_water_flux"}

NoModel ==
    [built |-> FALSE, structDof |-> 0, fixed |-> {}, costValue |-> 0,
     objective |-> FALSE, parameters |-> {}, bounds |-> {}, added |-> {},
     declared |-> [c \in Declarations |-> 0],
     initLog |-> << >>, exported |-> {}, values |-> 0]

NewModel(d) ==
    [NoModel EXCEPT !.built = TRUE, !.structDof = d, !.fixed = CostingFixed]

\* idaes degrees_of_freedom: unfixed variables in active equalities minus
\* active equalities; inequality constraints are not counted
Equalities(mm) == {c \in mm.added : c.kind = "eq"}

Dof(mm) ==
    mm.structDof - Cardinality(mm.fixed) - Cardinality(Equalities(mm))

----------------------------------------------------------------------------
(* Calls.  A call names the function, the keyword arguments passed, the    *)
(* value bound to check_termination and the results key its value goes to. *)

Call(f) == [fn |-> f, kw |-> {}, ct |-> TRUE, to |-> ""]

CallKw(f, k) == [fn |-> f, kw |-> k, ct |-> TRUE, to |-> ""]

CallTo(f, key) == [fn |-> f, kw |-> {}, ct |-> TRUE, to |-> key]

\* the parameter names of each def; none takes **kwargs
Params(f) ==
    CASE f = "set_operating_conditions" -> {"m"}
      [] f = "solve" -> {"blk", "solver", "tee", "check_termination"}
      [] f = "optimize" -> {"m", "check_termination"}
      [] f \in {"initialize_system", "optimize_set_up", "display_system",
                "display_design", "display_state"} -> {"m"}
      [] OTHER -> {}

Report ==
    <<Call("display_system"), Call("display_design"), Call("display_state")>>

\* the simulation solve retried once before the first report
MainProgramWithRetry ==
    <<Call("build"), Call("set_operating_conditions"),
      Call("initialize_system"), Call("solve"), Call("solve")>>
    \o Report
    \o <<Call("optimize_set_up"), Call("optimize")>>
    \o Report
    \o <<Call("fix_membrane_cost"), Call("optimize")>>
    \o Report

MainProgram ==
    <<Call("build"), Call("set_operating_conditions"),
      Call("initialize_system"), Call("solve")>>
    \o Report
    \o <<Call("optimize_set_up"), Call("optimize")>>
    \o Report
    \o <<Call("fix_membrane_cost"), Call("optimize")>>
    \o Report

UiBuildProgram ==
    <<Call("build"),
      CallKw("set_operating_conditions", {"water_recovery", "over_pressure"}),
      Call("initialize_system"), Call("set_block")>>

UiSolveProgram ==
    <<Call("parent_block"), Call("solve"),
      CallTo("display_system", "simulation"),
      Call("display_design"), Call("display_state"),
      Call("optimize_set_up"), Call("optimize"),
      CallTo("display_system", "optimization"),
      Call("display_design"), Call("display_state"),
      Call("return")>>

\* a block handed to the UI from a model prepared as main prepares it
PresetProgram ==
    <<Call("build"), Call("set_operating_conditions"),
      Call("initialize_system"), Call("set_block")>>

----------------------------------------------------------------------------
(* Control. *)

NoError == [kind |-> "none", arg |-> 0, by |-> ""]

At(f) == handler # "idle" /\ ip <= Len(prog) /\ prog[ip].fn = f

\* python binds the keywords of a call to the parameters of the def
Binds == prog[ip].kw \subseteq Params(prog[ip].fn)

Enter == trace' = Append(trace, prog[ip].fn)

Advance ==
    /\ ip' = ip + 1
    /\ handler' = IF ip + 1 > Len(prog) THEN "idle" ELSE handler
    /\ err' = NoError

Raise(kind, arg) ==
    /\ ip' = ip
    /\ handler' = "idle"
    /\ err' = [kind |-> kind, arg |-> arg, by |-> prog[ip].fn]

\* a call whose keywords the def does not take: TypeError before the body runs
CallTypeError ==
    /\ handler # "idle" /\ ip <= Len(prog) /\ ~Binds
    /\ Enter
    /\ Raise("TypeError", 0)
    /\ UNCHANGED <<driver, prog, m, calls, checked, dirty, uiBlock, results,
                   returned, runs, nf>>

----------------------------------------------------------------------------
(* build(), lines 140-210: a fresh model; the library decides its balance. *)

Build ==
    /\ At("build") /\ Binds
    /\ Enter
    /\ \E d \in BuiltDofs : m' = NewModel(d)
    /\ calls' = << >>
    /\ checked' = {}
    /\ dirty' = {}
    /\ Advance
    /\ UNCHANGED <<driver, prog, uiBlock, results, returned, runs, nf>>

----------------------------------------------------------------------------
(* set_operating_conditions(m), lines 213-297. *)

\* lines 218-250: every fix, and calculate_state with hold_state=True
Specify(mm) == [mm EXCEPT !.fixed = @ \cup OperatingVarSet]

\* an over-specified model passes a check that only looks for free variables
DofMismatchUnderSpecified(mm) == Dof(mm) > 0

\* line 253: degrees_of_freedom(m) != 0
DofMismatch(mm) == Dof(mm) # 0

\* lines 262-297: export_variables
ExportedVariables ==
    {"pump.efficiency_pump", "RO.area", "RO.A_comp", "RO.B_comp",
     "RO.channel_height", "RO.spacer_porosity", "RO.width",
     "RO.permeate.pressure", "RO.inlet.pressure"}

SetOperatingConditions ==
    /\ At("set_operating_conditions") /\ Binds
    /\ Enter
    /\ LET mm == Specify(m) IN
       IF DofMismatch(mm)
       THEN /\ m' = mm
            /\ Raise("RuntimeError", Dof(mm))
            /\ checked' = {}
            /\ dirty' = dirty \cup (OperatingVarSet \ m.fixed)
       ELSE /\ m' = [mm EXCEPT !.exported = ExportedVariables]
            /\ Advance
            /\ checked' = {0}
            /\ dirty' = {}
    /\ UNCHANGED <<driver, prog, calls, uiBlock, results, returned, runs, nf>>

----------------------------------------------------------------------------
(* initialize_system(m), lines 309-321. *)

Init1(u) == [op |-> "initialize", on |-> u]

Prop(a) == [op |-> "propagate_state", on |-> a]

\* the energy recovery device left out of the sequence
InitStepsWithoutErd ==
    <<Init1("feed"), Prop("s01"), Init1("pump"), Prop("s02"), Init1("RO"),
      Prop("s03"), Prop("s04"), Prop("s05"), Init1("costing")>>

\* the pump's outlet state propagated before the pump is initialized
InitStepsEarlyPropagation ==
    <<Init1("feed"), Prop("s01"), Prop("s02"), Init1("pump"), Init1("RO"),
      Prop("s03"), Prop("s04"), Init1("erd"), Prop("s05"), Init1("costing")>>

InitSteps ==
    <<Init1("feed"), Prop("s01"), Init1("pump"), Prop("s02"), Init1("RO"),
      Prop("s03"), Prop("s04"), Init1("erd"), Prop("s05"), Init1("costing")>>

\* the first k steps complete; a unit's initialize may raise and end the routine
InitializeSystem ==
    /\ At("initialize_system") /\ Binds
    /\ Enter
    /\ \E k \in 0..Len(InitSteps) :
        /\ m' = [m EXCEPT !.initLog = @ \o SubSeq(InitSteps, 1, k)]
        /\ IF k = Len(InitSteps)
           THEN Advance
           ELSE /\ InitSteps[k + 1].op = "initialize"
                /\ Raise("InitializationError", k + 1)
    /\ UNCHANGED <<driver, prog, calls, checked, dirty, uiBlock, results,
                   returned, runs, nf>>

----------------------------------------------------------------------------
(* solve(blk, solver, tee, check_termination), lines 300-306, and          *)
(* optimize(m, check_termination), lines 369-371.                          *)

Terminations == {"optimal", "infeasible", "maxIterations"}

\* only an infeasible termination is rejected
TerminationRejectedInfeasibleOnly(ct, t) == ct /\ t = "infeasible"

\* lines 304-305: assert_optimal_termination(results) under check_termination
TerminationRejected(ct, t) == ct /\ t # "optimal"

SolveBody(kind, ct) ==
    \E t \in Terminations :
        /\ calls' = Append(calls,
                [kind |-> kind, dof |-> Dof(m), objective |-> m.objective,
                 checked |-> checked, dirty |-> dirty, ct |-> ct, term |-> t])
        /\ m' = [m EXCEPT !.values = Len(calls) + 1]
        /\ IF TerminationRejected(ct, t)
           THEN Raise("RuntimeError", 0)
           ELSE Advance

Solve ==
    /\ At("solve") /\ Binds
    /\ Enter
    /\ SolveBody("simulation", prog[ip].ct)
    /\ UNCHANGED <<driver, prog, checked, dirty, uiBlock, results, returned,
                   runs, nf>>

Optimize ==
    /\ At("optimize") /\ Binds
    /\ Enter
    /\ SolveBody("optimization", prog[ip].ct)
    /\ UNCHANGED <<driver, prog, checked, dirty, uiBlock, results, returned,
                   runs, nf>>

----------------------------------------------------------------------------
(* optimize_set_up(m), lines 324-366. *)

DecisionVars == {"pump.pressure_out", "RO.velocity"}

ExpectedOptimizationDof == 2

\* lines 330-343: unfix the decision variables and bound them
UnfixDecisionVars(mm) == [mm EXCEPT !.fixed = @ \ DecisionVars]

AddedBounds ==
    {<<"pump.pressure_out", "lb">>, <<"pump.pressure_out", "ub">>,
     <<"pump.deltaP", "lb">>, <<"RO.velocity", "lb">>, <<"RO.velocity", "ub">>,
     <<"RO.area", "lb">>, <<"RO.area", "ub">>}

\* the product-quality requirement declared as an equality
AddedConstraintsWithEquality ==
    {[name |-> "eq_product_quality", kind |-> "eq"],
     [name |-> "eq_minimum_water_flux", kind |-> "ineq"]}

\* lines 354-363: both are inequalities (<=, >=)
AddedConstraints ==
    {[name |-> "eq_product_quality", kind |-> "ineq"],
     [name |-> "eq_minimum_water_flux", kind |-> "ineq"]}

\* assigning a component to a name the block already holds replaces it
Declare(mm) ==
    [mm EXCEPT !.objective = TRUE,
               !.parameters = @ \cup {"product_salinity", "minimum_water_flux"},
               !.added = @ \cup AddedConstraints,
               !.bounds = @ \cup AddedBounds,
               !.declared = [c \in Declarations |-> @[c] + 1]]

SetUpOptimization(mm) == Declare(UnfixDecisionVars(mm))

\* watertap.core.util.initialization.assert_degrees_of_freedom(m, n)
AssertDofFails(mm, n) == Dof(mm) # n

OptimizeSetUp ==
    /\ At("optimize_set_up") /\ Binds
    /\ Enter
    /\ LET mm == SetUpOptimization(m) IN
        /\ m' = mm
        /\ IF AssertDofFails(mm, ExpectedOptimizationDof)
           THEN /\ Raise("ValueError", Dof(mm))
                /\ checked' = {}
                /\ dirty' = dirty \cup (DecisionVars \cap m.fixed)
           ELSE /\ Advance
                /\ checked' = {ExpectedOptimizationDof}
                /\ dirty' = {}
    /\ UNCHANGED <<driver, prog, calls, uiBlock, results, returned, runs, nf>>

\* main, line 132: m.fs.costing.reverse_osmosis_membrane_cost.fix(60)
FixMembraneCost ==
    /\ At("fix_membrane_cost") /\ Binds
    /\ Enter
    /\ m' = [m EXCEPT !.fixed = @ \cup {MembraneCost},
                      !.costValue = MembraneCostNew]
    /\ dirty' = dirty \cup {MembraneCost}
    /\ Advance
    /\ UNCHANGED <<driver, prog, calls, checked, uiBlock, results, returned,
                   runs, nf>>

----------------------------------------------------------------------------
(* display_system, display_design, display_state, lines 374-459. *)

SystemMetrics ==
    {"Product", "Volumetric recovery", "Water recovery",
     "Energy Consumption", "Levelized cost of water"}

\* lines 406-415: the returned dict, formatted from the current values
DisplaySystemResult(mm) == [k \in SystemMetrics |-> mm.values]

Put(d, key, v) ==
    [k \in DOMAIN d \cup {key} |-> IF k = key THEN v ELSE d[k]]

DisplaySystem ==
    /\ At("display_system") /\ Binds
    /\ Enter
    /\ results' = IF prog[ip].to = "" THEN results
                  ELSE Put(results, prog[ip].to, DisplaySystemResult(m))
    /\ Advance
    /\ UNCHANGED <<driver, prog, m, calls, checked, dirty, uiBlock, returned,
                   runs, nf>>

\* a report that builds a property on demand: a new variable and its equality
DisplayDesignBuildingProperty ==
    /\ At("display_design") /\ Binds
    /\ Enter
    /\ m' = [m EXCEPT !.structDof = @ + 1,
                      !.added = @ \cup {[name |-> "eq_mass_frac_phase_comp",
                                         kind |-> "eq"]}]
    /\ Advance
    /\ UNCHANGED <<driver, prog, calls, checked, dirty, uiBlock, results,
                   returned, runs, nf>>

DisplayDesign ==
    /\ At("display_design") /\ Binds
    /\ Enter
    /\ Advance
    /\ UNCHANGED <<driver, prog, m, calls, checked, dirty, uiBlock, results,
                   returned, runs, nf>>

DisplayState ==
    /\ At("display_state") /\ Binds
    /\ Enter
    /\ Advance
    /\ UNCHANGED <<driver, prog, m, calls, checked, dirty, uiBlock, results,
                   returned, runs, nf>>

----------------------------------------------------------------------------
(* The UI adapter: flowsheet_interface, ui_build, ui_solve, lines 49-107. *)

\* line 85: ui.set_block(model.fs)
SetBlock ==
    /\ At("set_block") /\ Binds
    /\ Enter
    /\ uiBlock' = TRUE
    /\ Advance
    /\ UNCHANGED <<driver, prog, m, calls, checked, dirty, results, returned,
                   runs, nf>>

\* line 89: fs, m = block, block.parent_block(); block defaults to None
ParentBlock ==
    /\ At("parent_block") /\ Binds
    /\ Enter
    /\ IF uiBlock THEN Advance ELSE Raise("AttributeError", 0)
    /\ UNCHANGED <<driver, prog, m, calls, checked, dirty, uiBlock, results,
                   returned, runs, nf>>

\* line 107: return results
Return ==
    /\ At("return") /\ Binds
    /\ Enter
    /\ returned' = <<results>>
    /\ Advance
    /\ UNCHANGED <<driver, prog, m, calls, checked, dirty, uiBlock, results,
                   runs, nf>>

\* lines 76-77: the functions registered for the build and solve actions
ActionProgram(a) == IF a = "build" THEN UiBuildProgram ELSE UiSolveProgram

ActionHandler(a) == IF a = "build" THEN "ui_build" ELSE "ui_solve"

\* fsi.run_action(a): the registered function runs with the block the interface
\* holds; a session with a preset block runs the solve action on it
RunAction ==
    /\ handler = "idle"
    /\ runs < MaxActions
    /\ \/ driver = "ui"
       \/ driver = "ui_preset" /\ uiBlock
    /\ \E a \in IF driver = "ui" THEN {"build", "solve"} ELSE {"solve"} :
        /\ handler' = ActionHandler(a)
        /\ prog' = ActionProgram(a)
    /\ ip' = 1
    /\ err' = NoError
    /\ trace' = << >>
    /\ results' = << >>
    /\ returned' = << >>
    /\ runs' = runs + 1
    /\ UNCHANGED <<driver, m, calls, checked, dirty, uiBlock, nf>>

----------------------------------------------------------------------------
(* NanofiltrationZO, watertap/unit_models/zero_order/nanofiltration_zo.py. *)

Subtypes == {"default", "alt"}

Solutes == <<"tds", "dye">>

SoluteSet == {Solutes[i] : i \in 1..Len(Solutes)}

\* a database value remembers the entry and the key it was stored under
DbValue(s, p) == [from |-> s, param |-> p]

Unset == [from |-> "", param |-> ""]

\* the parameter dicts a database may hold for one subtype: any of the entries
\* may be missing
PDicts(s) ==
    {[recovery |-> r, removal |-> rm, default |-> d, energy |-> e,
      subtype |-> s] :
        r \in BOOLEAN, rm \in SUBSET SoluteSet, d \in BOOLEAN, e \in BOOLEAN}

NoEntry == [recovery |-> FALSE, removal |-> {}, default |-> FALSE,
            energy |-> FALSE, subtype |-> ""]

NewUnit ==
    [recovery_frac_mass_H2O |-> Unset,
     removal_frac_mass_solute |-> [j \in SoluteSet |-> Unset],
     energy_electric_flow_vol_inlet |-> Unset]

Ok(u) == [unit |-> u, err |-> ""]

Failed(u) == [unit |-> u, err |-> "KeyError"]

\* database.get_unit_operation_parameters(technology, subtype=...)
GetUnitOperationParameters(db, technology, subtype) ==
    IF technology = "nanofiltration" /\ db[subtype] # NoEntry
    THEN [pdict |-> db[subtype], err |-> ""]
    ELSE [pdict |-> NoEntry, err |-> "KeyError"]

\* set_param_from_data(parameter, data): fixes the parameter at the entry of
\* its name, KeyError when the data holds none
SetParamFromData(u, pname, pdict) ==
    IF pname = "energy_electric_flow_vol_inlet"
    THEN IF pdict.energy
         THEN Ok([u EXCEPT !.energy_electric_flow_vol_inlet =
                               DbValue(pdict.subtype, pname)])
         ELSE Failed(u)
    ELSE IF pdict.recovery
         THEN Ok([u EXCEPT !.recovery_frac_mass_H2O =
                               DbValue(pdict.subtype, pname)])
         ELSE Failed(u)

\* the removal fraction of solute j: its own entry, else the default one when
\* use_default_removal, else KeyError
SetRemoval(u, j, pdict, use_default_removal) ==
    IF j \in pdict.removal
    THEN Ok([u EXCEPT !.removal_frac_mass_solute[j] = DbValue(pdict.subtype, j)])
    ELSE IF use_default_removal /\ pdict.default
         THEN Ok([u EXCEPT !.removal_frac_mass_solute[j] =
                               DbValue(pdict.subtype, "default")])
         ELSE Failed(u)

RECURSIVE SetRemovals(_, _, _, _)
SetRemovals(r, i, pdict, use_default_removal) ==
    IF i > Len(Solutes) \/ r.err # "" THEN r
    ELSE SetRemovals(SetRemoval(r.unit, Solutes[i], pdict, use_default_removal),
                     i + 1, pdict, use_default_removal)

\* set_recovery_and_removal(data, use_default_removal)
SetRecoveryAndRemoval(u, pdict, use_default_removal) ==
    SetRemovals(SetParamFromData(u, "recovery_frac_mass_H2O", pdict), 1,
                pdict, use_default_removal)

\* lines 67-68: the key of the query
QueryTechnology == "nanofiltration"

\* the query made for the default subtype whatever the unit's configuration
QuerySubtypeDefault(n) == "default"

QuerySubtype(n) == n.process_subtype

Query(n) == [op |-> "query", technology |-> QueryTechnology,
             subtype |-> QuerySubtype(n), flag |-> FALSE]

\* line 70: the flag handed on to set_recovery_and_removal
RemovalFlag(use_default_removal) == use_default_removal

\* load_parameters_from_database(use_default_removal), lines 54-72
LoadResult(n, use_default_removal) ==
    LET q == Query(n)
        got == GetUnitOperationParameters(n.db, q.technology, q.subtype)
        flag == RemovalFlag(use_default_removal)
        r1 == SetRecoveryAndRemoval(n.unit, got.pdict, flag)
        r2 == SetParamFromData(r1.unit, "energy_electric_flow_vol_inlet",
                               got.pdict)
        c1 == [op |-> "set_recovery_and_removal", technology |-> "",
               subtype |-> "", flag |-> flag]
        c2 == [op |-> "set_param_from_data", technology |-> "",
               subtype |-> "", flag |-> FALSE]
    IN  IF got.err # ""
        THEN [n EXCEPT !.pc = "raised", !.err = got.err, !.log = <<q>>]
        ELSE IF r1.err # ""
        THEN [n EXCEPT !.pc = "raised", !.err = r1.err, !.unit = r1.unit,
                       !.log = <<q, c1>>]
        ELSE [n EXCEPT !.pc = IF r2.err # "" THEN "raised" ELSE "returned",
                       !.err = r2.err, !.unit = r2.unit, !.log = <<q, c1, c2>>]

LoadParametersFromDatabase ==
    /\ nf.pc = "call"
    /\ nf' = LoadResult(nf, nf.use_default_removal)
    /\ UNCHANGED flowVars

NfIdle ==
    [pc |-> "idle", process_subtype |-> "default", use_default_removal |-> FALSE,
     db |-> [s \in Subtypes |-> NoEntry], unit |-> NewUnit, err |-> "",
     log |-> << >>]

\* Three drivers: the script entry point main(); a UI session that runs the
\* build and solve actions of flowsheet_interface(); and a UI session whose
\* block comes from a model prepared with the calls main makes, on which the
\* solve action is then run (ui_solve takes the block as its input).
Init ==
    /\ driver \in {"main", "ui", "ui_preset"}
    /\ handler = CASE driver = "main" -> "main"
                   [] driver = "ui" -> "idle"
                   [] OTHER -> "preset"
    /\ prog = CASE driver = "main" -> MainProgram
                [] driver = "ui" -> << >>
                [] OTHER -> PresetProgram
    /\ ip = 1
    /\ m = NoModel
    /\ err = NoError
    /\ trace = << >>
    /\ calls = << >>
    /\ checked = {}
    /\ dirty = {}
    /\ uiBlock = FALSE
    /\ results = << >>
    /\ returned = << >>
    /\ runs = 0
    /\ nf = NfIdle

Next ==
    \/ CallTypeError
    \/ Build
    \/ SetOperatingConditions
    \/ InitializeSystem
    \/ Solve
    \/ Optimize
    \/ OptimizeSetUp
    \/ FixMembraneCost
    \/ DisplaySystem
    \/ DisplayDesign
    \/ DisplayState
    \/ SetBlock
    \/ ParentBlock
    \/ Return
    \/ RunAction

Spec == Init /\ [][Next]_vars

----------------------------------------------------------------------------
(* The core functions called directly, one call each, with any arguments   *)
(* their defs accept, on a specified model.                                *)

\* operating variables a caller may have left unfixed
Unspecified == SUBSET (DecisionVars \cup {"RO.recovery_vol_phase"})

SpecifiedModels ==
    {[NewModel(d) EXCEPT !.fixed = CostingFixed \cup (OperatingVarSet \ u)] :
        d \in BuiltDofs, u \in Unspecified}

\* as specified, or already set up for optimization
CallModels ==
    SpecifiedModels \cup {SetUpOptimization(mm) : mm \in SpecifiedModels}

\* check_termination keeps its default, True, unless passed
WithTermination(f, optional) ==
    {[fn |-> f, kw |-> k, ct |-> c, to |-> ""] :
        k \in SUBSET optional, c \in BOOLEAN}

DirectCalls ==
    {c \in WithTermination("solve", {"solver", "tee", "check_termination"})
           \cup WithTermination("optimize", {"check_termination"}) :
        "check_termination" \notin c.kw => c.ct}
    \cup {Call("optimize_set_up"), Call("display_system"),
          Call("display_design"), Call("display_state")}

InitCalls ==
    /\ driver = "call"
    /\ handler = "call"
    /\ prog \in {<<c>> : c \in DirectCalls}
    /\ ip = 1
    /\ m \in CallModels
    /\ err = NoError
    /\ trace = << >>
    /\ calls = << >>
    /\ checked = {}
    /\ dirty = {}
    /\ uiBlock = FALSE
    /\ results = << >>
    /\ returned = << >>
    /\ runs = 0
    /\ nf = NfIdle

NextCalls ==
    \/ Solve
    \/ Optimize
    \/ OptimizeSetUp
    \/ DisplaySystem
    \/ DisplayDesign
    \/ DisplayState

SpecCalls == InitCalls /\ [][NextCalls]_vars

----------------------------------------------------------------------------
(* One call of load_parameters_from_database on a fresh unit, for any      *)
(* database contents, configured subtype and flag.                         *)

Databases ==
    {db \in [Subtypes -> UNION {PDicts(s) : s \in Subtypes} \cup {NoEntry}] :
        \A s \in Subtypes : db[s] = NoEntry \/ db[s].subtype = s}

InitNF ==
    /\ driver = "none"
    /\ handler = "idle"
    /\ prog = << >>
    /\ ip = 1
    /\ m = NoModel
    /\ err = NoError
    /\ trace = << >>
    /\ calls = << >>
    /\ checked = {}
    /\ dirty = {}
    /\ uiBlock = FALSE
    /\ results = << >>
    /\ returned = << >>
    /\ runs = 0
    /\ \E s \in Subtypes, f \in BOOLEAN, db \in Databases :
        nf = [NfIdle EXCEPT !.pc = "call", !.process_subtype = s,
                            !.use_default_removal = f, !.db = db]

NextNF == LoadParametersFromDatabase

SpecNF == InitNF /\ [][NextNF]_vars

----------------------------------------------------------------------------
(* Properties. *)

\* the state a call of f leaves: f is the last call the handler made
AfterCall(f) == trace # << >> /\ trace[Len(trace)] = f

\* a step that is a call of f
CallStep(f) == trace' = Append(trace, f)

\* C1: set_operating_conditions returns normally only with exactly 0 degrees
\* of freedom after its fix/calculate_state steps; with any other count it
\* raises an error carrying that count and exports no UI variable.
C1_SetOperatingConditionsChecksDof ==
    AfterCall("set_operating_conditions") =>
        /\ err.kind = "none" => Dof(m) = 0 /\ m.exported = ExportedVariables
        /\ err.kind # "TypeError" =>
            /\ err.kind = (IF Dof(m) = 0 THEN "none" ELSE "RuntimeError")
            /\ OperatingVarSet \subseteq m.fixed
        /\ err.kind = "RuntimeError" =>
            /\ err.arg = Dof(m)
            /\ err.arg # 0
            /\ m.exported = {}
            /\ handler = "idle"

C1_Witness ==
    /\ AfterCall("set_operating_conditions")
    /\ err.kind = "RuntimeError"
    /\ err.arg = Dof(m)
    /\ Dof(m) # 0
    /\ m.exported = {}

\* C2: optimize_set_up applied to a model with 0 degrees of freedom returns
\* with exactly 2, the number of fixed decision variables it unfixes; the
\* bounds, parameters and the two inequality constraints it adds do not change
\* the count; with any other resulting count it raises instead of returning.
C2_OptimizeSetUpLeavesTwoDof ==
    [][CallStep("optimize_set_up") =>
        /\ err'.kind = (IF Dof(m') = ExpectedOptimizationDof
                        THEN "none" ELSE "ValueError")
        /\ m.fixed \ m'.fixed = DecisionVars \cap m.fixed
        /\ m'.fixed \subseteq m.fixed
        /\ Dof(m') - Dof(m) = Cardinality(m.fixed \ m'.fixed)
        /\ {c.name : c \in m'.added} =
               {"eq_product_quality", "eq_minimum_water_flux"}
        /\ AddedBounds \subseteq m'.bounds
        /\ m'.objective
        /\ (Dof(m) = 0 /\ err'.kind = "none") =>
               /\ Dof(m') = 2
               /\ Cardinality(m.fixed \ m'.fixed) = 2
        /\ (Dof(m) = 0 /\ DecisionVars \subseteq m.fixed) => err'.kind = "none"
    ]_vars

C2_Witness ==
    /\ AfterCall("optimize_set_up")
    /\ err.kind = "none"
    /\ Dof(m) = 2
    /\ m.declared["objective"] = 1
    /\ DecisionVars \cap m.fixed = {}
    /\ Cardinality(m.added) = 2

AfterSolverCall == AfterCall("solve") \/ AfterCall("optimize")

LastCall == calls[Len(calls)]

\* C3 as stated: no call of solve or optimize returns normally with a
\* termination status that is not optimal, whatever the arguments.
C3_Original ==
    (AfterSolverCall /\ err.kind = "none") => LastCall.term = "optimal"

\* C3: a call of solve or optimize whose check_termination is true (the
\* default) raises exactly when the solver's termination is not optimal; with
\* check_termination false it returns whatever the termination.
C3_TerminationAssertedWhenChecked ==
    AfterSolverCall =>
        /\ Len(calls) = 1
        /\ LastCall.ct = prog[1].ct
        /\ LastCall.ct =>
               err.kind = (IF LastCall.term = "optimal"
                           THEN "none" ELSE "RuntimeError")
        /\ ~LastCall.ct => err.kind = "none"

C3_Witness ==
    /\ AfterCall("optimize")
    /\ LastCall.ct
    /\ LastCall.term = "maxIterations"
    /\ err.kind = "RuntimeError"
RequiredDof(kind) ==
    IF kind = "simulation" THEN 0 ELSE ExpectedOptimizationDof

\* C4 as stated: every solver invocation of main and of the UI solve action runs
\* on a model whose degrees of freedom are what the solve requires (0 for a
\* simulation solve, 2 for an optimization solve), after a check for that
\* count and with no fix or unfix since that check.
C4_Original ==
    \A i \in 1..Len(calls) :
        /\ calls[i].dof = RequiredDof(calls[i].kind)
        /\ calls[i].checked = {RequiredDof(calls[i].kind)}
        /\ calls[i].dirty = {}

Count(log, step) == Cardinality({i \in 1..Len(log) : log[i] = step})

InitializedUnits(log) ==
    LET inits == SelectSeq(log, LAMBDA s : s.op = "initialize")
    IN  [i \in 1..Len(inits) |-> inits[i].on]

IsPrefix(a, b) == Len(a) <= Len(b) /\ SubSeq(b, 1, Len(a)) = a

InitializeReturned == AfterCall("initialize_system") /\ err.kind = "none"

\* C5 as stated: when initialize_system returns every unit model of the
\* flowsheet, the product and disposal sinks included, has been initialized
\* exactly once.
C5_Original ==
    InitializeReturned =>
        \A u \in UnitSet : Count(m.initLog, Init1(u)) = 1

\* C5: initialize_system initializes feed, pump, RO and the energy recovery
\* device exactly once each, in that order, and the costing block after them;
\* the product and disposal sinks are not initialized, they only receive the
\* state propagated over s03 and s05.
C5_InitializationOrder ==
    /\ IsPrefix(InitializedUnits(m.initLog),
                <<"feed", "pump", "RO", "erd", "costing">>)
    /\ InitializeReturned =>
        /\ InitializedUnits(m.initLog) =
               <<"feed", "pump", "RO", "erd", "costing">>
        /\ m.initLog[Len(m.initLog)] = Init1("costing")
        /\ Count(m.initLog, Init1("product")) = 0
        /\ Count(m.initLog, Init1("disposal")) = 0
        /\ Count(m.initLog, Prop("s03")) = 1
        /\ Count(m.initLog, Prop("s05")) = 1

C5_Witness ==
    /\ InitializeReturned
    /\ Count(m.initLog, Init1("erd")) = 1
    /\ Count(m.initLog, Init1("product")) = 0
    /\ Count(m.initLog, Init1("costing")) = 1

\* C6: each of the five connections of build is propagated exactly once by
\* initialize_system, after its source unit has been initialized; no unit is
\* initialized before every connection entering it has been propagated.
C6_PropagationOrder ==
    LET log == m.initLog IN
    /\ \A i \in 1..Len(log) :
        /\ log[i].op = "propagate_state" =>
            /\ log[i].on \in ArcNames
            /\ Count(log, log[i]) = 1
            /\ \E j \in 1..(i - 1) : log[j] = Init1(Arcs[log[i].on].source)
        /\ log[i].op = "initialize" =>
            \A a \in ArcNames :
                Arcs[a].destination = log[i].on =>
                    \E j \in 1..(i - 1) : log[j] = Prop(a)
    /\ InitializeReturned => \A a \in ArcNames : Count(log, Prop(a)) = 1

C6_Witness ==
    /\ InitializeReturned
    /\ \A a \in ArcNames : Count(m.initLog, Prop(a)) = 1
    /\ \E i, j \in 1..Len(m.initLog) :
        i < j /\ m.initLog[i] = Prop("s04") /\ m.initLog[j] = Init1("erd")

ReportStages == <<"display_system", "display_design", "display_state">>

MainStages ==
    <<"build", "set_operating_conditions", "initialize_system", "solve">>
    \o ReportStages
    \o <<"optimize_set_up", "optimize">>
    \o ReportStages
    \o <<"fix_membrane_cost", "optimize">>
    \o ReportStages

SolverStages(t) == SelectSeq(t, LAMBDA f : f \in {"solve", "optimize"})

C7_Sequence ==
    driver = "main" =>
        /\ IsPrefix(trace, MainStages)
        /\ Len(calls) = Len(SolverStages(trace))
        /\ \A i \in 1..Len(calls) :
            calls[i].term # "optimal" =>
                /\ i = Len(calls)
                /\ AfterSolverCall
                /\ err.kind = "RuntimeError"
        /\ err.kind # "none" => handler = "idle" /\ Len(trace) = ip
        /\ (handler = "idle" /\ err.kind = "none") => trace = MainStages

C7_Halted == (driver = "main" /\ err.kind # "none") => UNCHANGED vars

\* C7: main runs build, set_operating_conditions, initialize_system, solve,
\* report, optimize_set_up, optimize, report, parameter change, optimize,
\* report, each once and in that order; the error of a stage ends main, no
\* later stage runs, no report follows a failed solve.
C7_MainIsStrictSequence == []C7_Sequence /\ [][C7_Halted]_vars

C7_Witness ==
    /\ driver = "main"
    /\ AfterCall("solve")
    /\ err.kind = "RuntimeError"
    /\ handler = "idle"
    /\ Len(calls) = 1

\* C8 as stated: the build action of the UI runs build,
\* set_operating_conditions and initialize_system and registers the block, and
\* the solve action on that block returns a dictionary with the entries
\* "simulation" and "optimization".
C8_Original ==
    (driver = "ui" /\ handler = "idle" /\ runs > 0) =>
        /\ prog = UiBuildProgram =>
            /\ err.kind = "none"
            /\ uiBlock
            /\ trace = <<"build", "set_operating_conditions",
                         "initialize_system", "set_block">>
        /\ (prog = UiSolveProgram /\ err.kind = "none") =>
            /\ returned = <<results>>
            /\ DOMAIN results = {"simulation", "optimization"}

ReportStep ==
    \E f \in {"display_system", "display_design", "display_state"} :
        CallStep(f)

\* C9: a call of display_system, display_design or display_state changes
\* nothing of the model (values, fixed flags, bounds, constraints, objective),
\* invokes no solver, and so leaves the degrees of freedom as they were.
C9_ReportsArePureReads ==
    [][ReportStep =>
        /\ m' = m
        /\ calls' = calls
        /\ Dof(m') = Dof(m)
        /\ checked' = checked
        /\ dirty' = dirty
    ]_vars

C9_Witness ==
    /\ AfterCall("display_design")
    /\ err.kind = "none"
    /\ m.objective
    /\ m.values = 2
    /\ Len(calls) = 2

NfEntry == nf.db[nf.process_subtype]

NfQueries == SelectSeq(nf.log, LAMBDA c : c.op = "query")

\* C10: load_parameters_from_database queries the database once, for
\* "nanofiltration" and the configured subtype, before anything is set; then
\* sets recovery and removal with use_default_removal passed on, then the
\* electricity intensity; when the lookup raises, the error propagates and no
\* parameter of the unit has been modified.
C10_LoadParametersFromDatabase ==
    nf.pc \in {"raised", "returned"} =>
        /\ Len(nf.log) >= 1
        /\ nf.log[1] = [op |-> "query", technology |-> "nanofiltration",
                        subtype |-> nf.process_subtype, flag |-> FALSE]
        /\ Len(NfQueries) = 1
        /\ NfEntry = NoEntry =>
            /\ nf.pc = "raised"
            /\ nf.err = "KeyError"
            /\ Len(nf.log) = 1
            /\ nf.unit = NewUnit
        /\ NfEntry # NoEntry =>
            /\ Len(nf.log) >= 2
            /\ nf.log[2].op = "set_recovery_and_removal"
            /\ nf.log[2].flag = nf.use_default_removal
            /\ Len(nf.log) = 3 => nf.log[3].op = "set_param_from_data"
            /\ nf.unit.energy_electric_flow_vol_inlet # Unset =>
                /\ Len(nf.log) = 3
                /\ nf.unit.recovery_frac_mass_H2O # Unset
                /\ \A j \in SoluteSet : nf.unit.removal_frac_mass_solute[j] # Unset
            /\ (NfEntry.recovery /\ NfEntry.default /\ nf.use_default_removal)
                   => Len(nf.log) = 3
            /\ (NfEntry.recovery /\ NfEntry.removal # SoluteSet
                    /\ ~nf.use_default_removal)
                   => nf.pc = "raised" /\ Len(nf.log) = 2
        /\ nf.pc = "returned" =>
            /\ nf.err = ""
            /\ nf.unit.recovery_frac_mass_H2O =
                   DbValue(nf.process_subtype, "recovery_frac_mass_H2O")
            /\ nf.unit.energy_electric_flow_vol_inlet =
                   DbValue(nf.process_subtype, "energy_electric_flow_vol_inlet")
            /\ \A j \in SoluteSet :
                nf.unit.removal_frac_mass_solute[j] =
                    DbValue(nf.process_subtype,
                            IF j \in NfEntry.removal THEN j ELSE "default")

C10_Witness ==
    /\ nf.pc = "raised"
    /\ NfEntry = NoEntry
    /\ nf.process_subtype = "alt"
    /\ nf.db["default"] # NoEntry
    /\ nf.unit = NewUnit
    /\ Len(nf.log) = 1

\* C11 as stated: on one built model optimize_set_up is applied at most once,
\* so the objective, the product_salinity and minimum_water_flux parameters and
\* the eq_product_quality and eq_minimum_water_flux constraints are each
\* declared at most once, and every solve made as the simulation solve runs on
\* a model without the objective and with 0 degrees of freedom.
C11_Original ==
    /\ \A c \in Declarations : m.declared[c] <= 1
    /\ \A i \in 1..Len(calls) :
        calls[i].kind = "simulation" =>
            /\ ~calls[i].objective
            /\ calls[i].dof = 0

====
